---------------------------- MODULE Spec2Model ----------------------------
(***************************************************************************)
(* volatile-register: RO<T>, RW<T> and WO<T>, the access-policy wrappers   *)
(* for memory mapped registers (src/src/lib.rs), laid over the register    *)
(* block `Gpio` of the crate's usage example.                              *)
(*                                                                         *)
(* The payload T is a byte, halfword or word, the case for which the       *)
(* source documents every read and write as one uninterruptible access.    *)
(* Execution contexts (a main program and an interrupt handler) obtain     *)
(* references to the blocks through the accessors of the usage example and *)
(* call the wrappers' methods; the hardware changes registers out of band. *)
(* `log` is the sequence of transactions seen at the backing addresses,    *)
(* `calls` the sequence of method calls in the order they were made.       *)
(***************************************************************************)
EXTENDS Integers, Sequences, FiniteSets, TLC

VARIABLES
    block,   \* the fields of struct Gpio in declaration order, laid out
    mem,     \* address of a register -> the value it holds
    refs,    \* context -> the references to register blocks it holds
    pc,      \* context -> "idle", or "modify" between modify's load and store
    cur,     \* context -> the frame of its modify call in progress
    ret,     \* context -> the value its last read returned
    calls,   \* the method calls made, in program order
    log      \* the loads and stores at the backing addresses, in order

vars == <<block, mem, refs, pc, cur, ret, calls, log>>

\* ------------------------------------------------------------- bounds
\* Payload values are 0..MaxVal.
MaxVal == 2
\* No new call or hardware change starts once the log holds MaxLog transactions.
MaxLog == 3
\* The hardware changes a register out of band at most MaxHw times.
MaxHw == 1

\* ---------------------------------------------------------- constants
GPIOA_ADDRESS == 1073809408
GPIOC_ADDRESS == 1073811456

Val == 0 .. MaxVal
NoVal == 0 - 1
Ctx == {"main", "irq"}
Bases == {GPIOA_ADDRESS, GPIOC_ADDRESS}
Types == {"u8", "u16", "u32"}

\* core::mem::size_of::<T>() of the payload types.
SizeOf(ty) == CASE ty = "u8" -> 1 [] ty = "u16" -> 2 [] ty = "u32" -> 4

\* core::mem::align_of::<T>(): the natural alignment.
AlignOf(ty) == SizeOf(ty)

\* ------------------------------------------------------ #[repr(C)] layout
AlignUp(n, a) == ((n + a - 1) \div a) * a

\* The offset just past member k of a #[repr(C)] struct with members m.
RECURSIVE ReprCEnd(_, _)
ReprCEnd(m, k) ==
    IF k = 0 THEN 0
    ELSE AlignUp(ReprCEnd(m, k - 1), m[k].align) + m[k].size

ReprCOffset(m, k) == AlignUp(ReprCEnd(m, k - 1), m[k].align)

ReprCAlign(m) ==
    CHOOSE a \in {m[k].align : k \in 1 .. Len(m)} :
        \A k \in 1 .. Len(m) : m[k].align <= a

ReprCSize(m) == AlignUp(ReprCEnd(m, Len(m)), ReprCAlign(m))

ReprC(m) == [size |-> ReprCSize(m), align |-> ReprCAlign(m)]

\* The bare payload T.
Payload(ty) == [size |-> SizeOf(ty), align |-> AlignOf(ty)]

\* core::cell::UnsafeCell<T> is laid out as T.
UnsafeCell(l) == l

\* struct RO<T> { register: T }
RO(ty) == ReprC(<<Payload(ty)>>)

\* struct RW<T> { register: T }
RW(ty) == ReprC(<<Payload(ty)>>)

\* A write-only wrapper that carries a one-byte tag next to the payload.
WO_tagged(ty) == ReprC(<<UnsafeCell(Payload(ty)), Payload("u8")>>)

\* struct WO<T> { register: UnsafeCell<T> }
WO(ty) == ReprC(<<UnsafeCell(Payload(ty))>>)

Wrapper(f) ==
    CASE f.kind = "RO" -> RO(f.ty)
      [] f.kind = "RW" -> RW(f.ty)
      [] f.kind = "WO" -> WO(f.ty)

\* The members of a register block whose fields are blk.
Members(blk) == [k \in 1 .. Len(blk) |-> Wrapper(blk[k])]

\* The same block with every wrapper replaced by its bare payload.
PayloadMembers(blk) == [k \in 1 .. Len(blk) |-> Payload(blk[k].ty)]

\* A struct declared with fields fs as the compiler lays it out: every field
\* with its offset.
Laid(fs) ==
    [k \in 1 .. Len(fs) |->
        [name |-> fs[k].name, kind |-> fs[k].kind, ty |-> fs[k].ty,
         offset |-> ReprCOffset(Members(fs), k)]]

\* Every field taken to sit at the block's base.
RegAddr_base(base, blk, k) == base

\* &block.field as an address: the block's base plus the field's offset
\* (blk is a block laid out by Laid).
RegAddr(base, blk, k) == base + blk[k].offset

\* struct Gpio { cr: RW<u32>, idr: RO<u32>, odr: WO<u32> }
Gpio ==
    << [name |-> "cr", kind |-> "RW", ty |-> "u32"],
       [name |-> "idr", kind |-> "RO", ty |-> "u32"],
       [name |-> "odr", kind |-> "WO", ty |-> "u32"] >>

Fields == 1 .. 3

\* Register blocks of three fields, one of each kind in any order, with any
\* payload types.
Layouts ==
    { blk \in [Fields -> [name : {"r"}, kind : {"RO", "RW", "WO"}, ty : Types]] :
        \A i, j \in Fields : i # j => blk[i].kind # blk[j].kind }

Addrs(blk) == {RegAddr(b, blk, k) : b \in Bases, k \in 1 .. Len(blk)}

\* ------------------------------------------------------------ closures
\* The closures handed to modify: |t| t.wrapping_add(1) (in the payload's
\* range) and |_| 0.
Funcs == {"inc", "clear"}

Apply(f, x) == IF f = "inc" THEN (x + 1) % (MaxVal + 1) ELSE 0

\* ------------------------------------------------------------- records
Call(id, c, m, base, k, arg, f) ==
    [id |-> id, actor |-> c, call |-> m, base |-> base, reg |-> k,
     arg |-> arg, func |-> f]

Txn(actor, id, op, addr, v) ==
    [actor |-> actor, id |-> id, op |-> op, addr |-> addr, val |-> v]

NoFrame == [id |-> 0, addr |-> 0, func |-> "", t |-> 0]

HwCount == Cardinality({i \in 1 .. Len(log) : log[i].actor = "hw"})

\* ------------------------------------------------------------ references
\* c holds a reference through which &self methods of the block can be called.
Shared(c, base) == \E r \in refs[c] : r.base = base

\* c holds a reference through which &mut self methods can be called.
Exclusive(c, base) == \E r \in refs[c] : r.base = base /\ r.mut

\* ------------------------------------------------------ volatile accesses
\* A plain read: the compiler reuses the value the context loaded from addr
\* before, without a new load.
read_nonvolatile(actor, id, addr, v) ==
    LET seen == {i \in 1 .. Len(log) :
                    log[i].actor = actor /\ log[i].op = "load" /\ log[i].addr = addr}
    IN  IF seen = {}
        THEN /\ v = mem[addr]
             /\ log' = Append(log, Txn(actor, id, "load", addr, v))
             /\ UNCHANGED mem
        ELSE /\ v = log[CHOOSE i \in seen : \A j \in seen : j <= i].val
             /\ UNCHANGED <<mem, log>>

\* ptr::read_volatile(src): one load at addr, yielding v.
read_volatile(actor, id, addr, v) ==
    /\ v = mem[addr]
    /\ log' = Append(log, Txn(actor, id, "load", addr, v))
    /\ UNCHANGED mem

\* A plain write: a store of the value the register already holds is elided.
write_elide(actor, id, addr, v) ==
    IF mem[addr] = v
    THEN UNCHANGED <<mem, log>>
    ELSE /\ mem' = [mem EXCEPT ![addr] = v]
         /\ log' = Append(log, Txn(actor, id, "store", addr, v))

\* ptr::write_volatile(dst, v): one store of v at addr.
write_volatile(actor, id, addr, v) ==
    /\ mem' = [mem EXCEPT ![addr] = v]
    /\ log' = Append(log, Txn(actor, id, "store", addr, v))

\* --------------------------------------------------------------- Init
Init ==
    /\ block = Laid(Gpio)
    /\ mem = [a \in Addrs(block) |-> 0]
    /\ refs = [c \in Ctx |-> {}]
    /\ pc = [c \in Ctx |-> "idle"]
    /\ cur = [c \in Ctx |-> NoFrame]
    /\ ret = [c \in Ctx |-> NoVal]
    /\ calls = <<>>
    /\ log = <<>>

\* ------------------------------------------------------------ accessors
\* A context takes its reference once, before any register is accessed: the
\* references are 'static and never given back.
\* fn gpioa() -> &'static Gpio
gpioa(c) ==
    /\ refs[c] = {}
    /\ calls = <<>> /\ log = <<>>
    /\ refs' = [refs EXCEPT ![c] = @ \cup {[base |-> GPIOA_ADDRESS, mut |-> FALSE]}]
    /\ UNCHANGED <<block, mem, pc, cur, ret, calls, log>>

\* unsafe fn gpioc_mut() -> &'static mut Gpio: hands out mutable aliases.
gpioc_mut(c) ==
    /\ refs[c] = {}
    /\ calls = <<>> /\ log = <<>>
    /\ refs' = [refs EXCEPT ![c] = @ \cup {[base |-> GPIOC_ADDRESS, mut |-> TRUE]}]
    /\ UNCHANGED <<block, mem, pc, cur, ret, calls, log>>

\* -------------------------------------------------------------- methods
\* c is not inside a call, and the bounds leave room for one more.
CanCall(c) == pc[c] = "idle" /\ Len(log) < MaxLog /\ Len(calls) < MaxLog

\* RO::read(&self) -> T
RO_read(c, base, k) ==
    /\ CanCall(c)
    /\ Shared(c, base)
    /\ block[k].kind = "RO"
    /\ calls' = Append(calls, Call(Len(calls) + 1, c, "RO::read", base, k, NoVal, ""))
    /\ \E v \in Val :
        /\ read_volatile(c, Len(calls) + 1, RegAddr(base, block, k), v)
        /\ ret' = [ret EXCEPT ![c] = v]
    /\ UNCHANGED <<block, refs, pc, cur>>

\* RW::read(&self) -> T
RW_read(c, base, k) ==
    /\ CanCall(c)
    /\ Shared(c, base)
    /\ block[k].kind = "RW"
    /\ calls' = Append(calls, Call(Len(calls) + 1, c, "RW::read", base, k, NoVal, ""))
    /\ \E v \in Val :
        /\ read_volatile(c, Len(calls) + 1, RegAddr(base, block, k), v)
        /\ ret' = [ret EXCEPT ![c] = v]
    /\ UNCHANGED <<block, refs, pc, cur>>

\* A write through a pointer narrower than T: only the low bit is stored.
RW_write_narrow(c, base, k, value) ==
    /\ CanCall(c)
    /\ Exclusive(c, base)
    /\ block[k].kind = "RW"
    /\ calls' = Append(calls, Call(Len(calls) + 1, c, "RW::write", base, k, value, ""))
    /\ write_volatile(c, Len(calls) + 1, RegAddr(base, block, k), value % 2)
    /\ UNCHANGED <<block, refs, pc, cur, ret>>

\* RW::write(&mut self, value: T)
RW_write(c, base, k, value) ==
    /\ CanCall(c)
    /\ Exclusive(c, base)
    /\ block[k].kind = "RW"
    /\ calls' = Append(calls, Call(Len(calls) + 1, c, "RW::write", base, k, value, ""))
    /\ write_volatile(c, Len(calls) + 1, RegAddr(base, block, k), value)
    /\ UNCHANGED <<block, refs, pc, cur, ret>>

\* modify as one fused atomic read-modify-write transaction.
RW_modify_read_fused(c, base, k, func) ==
    /\ CanCall(c)
    /\ Exclusive(c, base)
    /\ block[k].kind = "RW"
    /\ calls' = Append(calls, Call(Len(calls) + 1, c, "RW::modify", base, k, NoVal, func))
    /\ mem' = [mem EXCEPT ![RegAddr(base, block, k)] = Apply(func, @)]
    /\ log' = Append(log, Txn(c, Len(calls) + 1, "rmw", RegAddr(base, block, k),
                              Apply(func, mem[RegAddr(base, block, k)])))
    /\ UNCHANGED <<block, refs, pc, cur, ret>>

\* modify taking &self, as WO::write does.
RW_modify_read_shared(c, base, k, func) ==
    /\ CanCall(c)
    /\ Shared(c, base)
    /\ block[k].kind = "RW"
    /\ calls' = Append(calls, Call(Len(calls) + 1, c, "RW::modify", base, k, NoVal, func))
    /\ \E v \in Val :
        /\ read_volatile(c, Len(calls) + 1, RegAddr(base, block, k), v)
        /\ cur' = [cur EXCEPT ![c] =
                     [id |-> Len(calls) + 1, addr |-> RegAddr(base, block, k),
                      func |-> func, t |-> v]]
    /\ pc' = [pc EXCEPT ![c] = "modify"]
    /\ UNCHANGED <<block, refs, ret>>

\* RW::modify(&mut self, func), first statement: let mut t = self.read();
RW_modify_read(c, base, k, func) ==
    /\ CanCall(c)
    /\ Exclusive(c, base)
    /\ block[k].kind = "RW"
    /\ calls' = Append(calls, Call(Len(calls) + 1, c, "RW::modify", base, k, NoVal, func))
    /\ \E v \in Val :
        /\ read_volatile(c, Len(calls) + 1, RegAddr(base, block, k), v)
        /\ cur' = [cur EXCEPT ![c] =
                     [id |-> Len(calls) + 1, addr |-> RegAddr(base, block, k),
                      func |-> func, t |-> v]]
    /\ pc' = [pc EXCEPT ![c] = "modify"]
    /\ UNCHANGED <<block, refs, ret>>

\* modify's store applying func to the register's content at the time of the
\* store instead of to the value loaded.
RW_modify_write_reload(c) ==
    /\ pc[c] = "modify"
    /\ write_volatile(c, cur[c].id, cur[c].addr, Apply(cur[c].func, mem[cur[c].addr]))
    /\ pc' = [pc EXCEPT ![c] = "idle"]
    /\ cur' = [cur EXCEPT ![c] = NoFrame]
    /\ UNCHANGED <<block, refs, ret, calls>>

\* RW::modify, the rest: t = func(t); self.write(t);
RW_modify_write(c) ==
    /\ pc[c] = "modify"
    /\ write_volatile(c, cur[c].id, cur[c].addr, Apply(cur[c].func, cur[c].t))
    /\ pc' = [pc EXCEPT ![c] = "idle"]
    /\ cur' = [cur EXCEPT ![c] = NoFrame]
    /\ UNCHANGED <<block, refs, ret, calls>>

\* x | y on two-bit values.
BitOr(x, y) ==
    (IF x % 2 = 1 \/ y % 2 = 1 THEN 1 ELSE 0)
    + (IF (x \div 2) % 2 = 1 \/ (y \div 2) % 2 = 1 THEN 2 ELSE 0)

\* A write that ors value into the register (|=) instead of replacing it.
WO_write_or(c, base, k, value) ==
    /\ CanCall(c)
    /\ Shared(c, base)
    /\ block[k].kind = "WO"
    /\ calls' = Append(calls, Call(Len(calls) + 1, c, "WO::write", base, k, value, ""))
    /\ write_volatile(c, Len(calls) + 1, RegAddr(base, block, k),
                      BitOr(mem[RegAddr(base, block, k)], value))
    /\ UNCHANGED <<block, refs, pc, cur, ret>>

\* A write that loads the register before it stores, as modify does.
WO_write_rmw(c, base, k, value) ==
    /\ CanCall(c)
    /\ Shared(c, base)
    /\ block[k].kind = "WO"
    /\ calls' = Append(calls, Call(Len(calls) + 1, c, "WO::write", base, k, value, ""))
    /\ mem' = [mem EXCEPT ![RegAddr(base, block, k)] = value]
    /\ log' = log \o << Txn(c, Len(calls) + 1, "load", RegAddr(base, block, k),
                             mem[RegAddr(base, block, k)]),
                         Txn(c, Len(calls) + 1, "store", RegAddr(base, block, k), value) >>
    /\ UNCHANGED <<block, refs, pc, cur, ret>>

\* WO::write(&self, value: T)
WO_write(c, base, k, value) ==
    /\ CanCall(c)
    /\ Shared(c, base)
    /\ block[k].kind = "WO"
    /\ calls' = Append(calls, Call(Len(calls) + 1, c, "WO::write", base, k, value, ""))
    /\ write_volatile(c, Len(calls) + 1, RegAddr(base, block, k), value)
    /\ UNCHANGED <<block, refs, pc, cur, ret>>

\* The hardware changes a readable register, of a block some context holds a
\* reference to, out of band.
HwStore(base, k, value) ==
    /\ Len(log) < MaxLog
    /\ HwCount < MaxHw
    /\ block[k].kind \in {"RO", "RW"}
    /\ \E c \in Ctx : Shared(c, base)
    /\ value # mem[RegAddr(base, block, k)]
    /\ write_volatile("hw", 0, RegAddr(base, block, k), value)
    /\ UNCHANGED <<block, refs, pc, cur, ret, calls>>

\* One step of the contexts cs or of the hardware, with the values written
\* drawn from vs.
Step(cs, vs) ==
    \/ \E c \in cs :
        \/ gpioa(c)
        \/ gpioc_mut(c)
        \/ RW_modify_write(c)
        \/ \E base \in Bases, k \in Fields :
            \/ RO_read(c, base, k)
            \/ RW_read(c, base, k)
            \/ \E value \in vs : RW_write(c, base, k, value)
            \/ \E func \in Funcs : RW_modify_read(c, base, k, func)
            \/ \E value \in vs : WO_write(c, base, k, value)
    \/ \E base \in Bases, k \in Fields, value \in vs : HwStore(base, k, value)

\* Two contexts and the hardware; each write picks one of two values.
Next == Step(Ctx, {1, MaxVal})

Spec == Init /\ [][Next]_vars

\* One context and the hardware; a write stores any payload value.
NextSeq == Step({"main"}, Val)

SpecSeq == Init /\ [][NextSeq]_vars

\* One context and the hardware over every register block of Layouts.
InitLayout ==
    /\ block \in {Laid(fs) : fs \in Layouts}
    /\ mem = [a \in Addrs(block) |-> 0]
    /\ refs = [c \in Ctx |-> {}]
    /\ pc = [c \in Ctx |-> "idle"]
    /\ cur = [c \in Ctx |-> NoFrame]
    /\ ret = [c \in Ctx |-> NoVal]
    /\ calls = <<>>
    /\ log = <<>>

NextLayout == Step({"main"}, {1})

SpecLayout == InitLayout /\ [][NextLayout]_vars

\* ---------------------------------------------------------- observations
Idx == 1 .. Len(log)

CallIds == 1 .. Len(calls)

\* The transactions of the call with this id, in the order they happened.
TxnsOf(id) == SelectSeq(log, LAMBDA e : e.id = id)

\* The address of the register a call is made on.
AddrOf(n) == RegAddr(n.base, block, n.reg)

SameReg(m, n) == m.base = n.base /\ m.reg = n.reg

\* Transaction i changes the content of the register at a.
IsStoreTo(i, a) == log[i].op # "load" /\ log[i].addr = a

StoresBefore(i, a) == {k \in 1 .. i - 1 : IsStoreTo(k, a)}

\* The value the register at a holds just before transaction i (registers
\* hold 0 at reset).
Held(i, a) ==
    IF StoresBefore(i, a) = {} THEN 0
    ELSE log[CHOOSE k \in StoresBefore(i, a) :
                 \A l \in StoresBefore(i, a) : l <= k].val

NoStoreBetween(i, j, a) == \A k \in i + 1 .. j - 1 : ~IsStoreTo(k, a)

NoStoreAfter(j, a) == \A k \in j + 1 .. Len(log) : ~IsStoreTo(k, a)

\* The call has returned.
Done(n) == ~(pc[n.actor] = "modify" /\ cur[n.actor].id = n.id)

\* ------------------------------------------------------------------ C1
\* C1: when RW::write(v) is followed by RW::read() on the same register,
\* each performs its access, and if no store to the register comes between
\* the two, the read returns v.
C1_RoundTrip ==
    \A m, n \in CallIds :
        (/\ m < n
         /\ calls[m].call = "RW::write"
         /\ calls[n].call = "RW::read"
         /\ SameReg(calls[m], calls[n]))
        => \E i, j \in Idx :
            /\ i < j
            /\ log[i].id = m /\ log[i].op = "store"
            /\ log[j].id = n /\ log[j].op = "load"
            /\ (NoStoreBetween(i, j, AddrOf(calls[m])) => log[j].val = calls[m].arg)

\* A write of a non-zero v directly followed by a read that returned v.
C1_Witness ==
    \E i \in Idx :
        /\ i + 1 \in Idx
        /\ log[i].id # 0 /\ calls[log[i].id].call = "RW::write"
        /\ log[i + 1].id # 0 /\ calls[log[i + 1].id].call = "RW::read"
        /\ log[i + 1].addr = log[i].addr
        /\ log[i].val = MaxVal
        /\ log[i + 1].val = MaxVal
        /\ ret[log[i + 1].actor] = MaxVal

\* ------------------------------------------------------------------ C2
\* C2: a modify(f) that has returned made exactly two transactions at the
\* register's address, a load of the value a the register held followed by a
\* store of f(a); when nothing else touched the register in between and no
\* later store followed, the register holds f(a). A modify that has not yet
\* returned has made its load only.
C2_ModifySemantics ==
    \A n \in CallIds :
        calls[n].call = "RW::modify" =>
            IF Done(calls[n])
            THEN \E i, j \in Idx :
                    /\ i < j
                    /\ TxnsOf(n) = <<log[i], log[j]>>
                    /\ log[i] = Txn(calls[n].actor, n, "load", AddrOf(calls[n]),
                                    Held(i, AddrOf(calls[n])))
                    /\ log[j] = Txn(calls[n].actor, n, "store", AddrOf(calls[n]),
                                    Apply(calls[n].func, log[i].val))
                    /\ ((\A k \in i + 1 .. j - 1 : log[k].addr # AddrOf(calls[n]))
                          /\ NoStoreAfter(j, AddrOf(calls[n])))
                        => mem[AddrOf(calls[n])]
                             = Apply(calls[n].func, Held(i, AddrOf(calls[n])))
            ELSE /\ Len(TxnsOf(n)) = 1
                 /\ TxnsOf(n)[1].op = "load"

\* A register preloaded with a non-zero a, then modify(inc) undisturbed: the
\* register holds inc(a).
C2_Witness ==
    \E i \in Idx :
        /\ i + 1 = Len(log)
        /\ log[i].id # 0 /\ log[i].id = log[i + 1].id
        /\ calls[log[i].id].call = "RW::modify"
        /\ calls[log[i].id].func = "inc"
        /\ log[i].op = "load" /\ log[i].val = 1
        /\ log[i + 1].op = "store"
        /\ mem[log[i].addr] = 2

\* ------------------------------------------------------------------ C3
LoadOf(id) == log[CHOOSE i \in Idx : log[i].id = id /\ log[i].op = "load"]

\* Someone else stored to the register c's modify is working on after the
\* modify's load.
Disturbed(c) ==
    \E i, k \in Idx :
        /\ i < k
        /\ log[i].id = cur[c].id /\ log[i].op = "load"
        /\ IsStoreTo(k, cur[c].addr)
        /\ log[k].actor # c

\* C3: when a modify(f) that loaded a returns after the hardware or another
\* context stored to the register, the register holds f(a), whatever was
\* stored in between, and the call returns like any other.
C3_LostUpdate ==
    [][\A c \in Ctx :
        (pc[c] = "modify" /\ pc'[c] = "idle" /\ Disturbed(c))
        => /\ mem'[cur[c].addr] = Apply(cur[c].func, LoadOf(cur[c].id).val)
           /\ log' = Append(log, Txn(c, cur[c].id, "store", cur[c].addr,
                                     Apply(cur[c].func, LoadOf(cur[c].id).val)))
           /\ ret' = ret /\ calls' = calls]_vars

\* modify(f) loaded a, b was stored by someone else, then modify stored f(a),
\* with f(a), f(b) and b all different.
C3_Witness ==
    \E i, k, j \in Idx :
        /\ i < k /\ k < j /\ j = Len(log)
        /\ log[i].id # 0 /\ log[i].id = log[j].id
        /\ calls[log[i].id].call = "RW::modify"
        /\ log[i].op = "load" /\ log[j].op = "store"
        /\ IsStoreTo(k, log[i].addr) /\ log[k].actor # log[i].actor
        /\ Apply(calls[log[i].id].func, log[i].val) # log[k].val
        /\ Apply(calls[log[i].id].func, log[i].val)
             # Apply(calls[log[i].id].func, log[k].val)
        /\ mem[log[i].addr] = Apply(calls[log[i].id].func, log[i].val)

\* ------------------------------------------------------------------ C4
\* C4: every RW::write(v) makes exactly one transaction, a store of v at the
\* register's address, and the stores of the writes appear in the log in the
\* order the writes were called.
C4_NoElision ==
    /\ \A n \in CallIds :
          calls[n].call = "RW::write" =>
              TxnsOf(n) = <<Txn(calls[n].actor, n, "store", AddrOf(calls[n]),
                                calls[n].arg)>>
    /\ \A i, j \in Idx :
          (/\ log[i].id # 0 /\ log[j].id # 0
           /\ calls[log[i].id].call = "RW::write"
           /\ calls[log[j].id].call = "RW::write"
           /\ log[i].id < log[j].id)
          => i < j

\* Writes of v1, v2, v1 to one register, the first rewriting the value the
\* register already holds, recorded as three stores in that order.
C4_Witness ==
    /\ Len(calls) = 3 /\ Len(log) = 3
    /\ \A n \in 1 .. 3 :
          /\ calls[n].call = "RW::write"
          /\ SameReg(calls[n], calls[1])
          /\ log[n].op = "store" /\ log[n].id = n
    /\ log[1].val = 0 /\ log[2].val = 1 /\ log[3].val = 0

\* ------------------------------------------------------------------ C5
IsRead(n) == n.call \in {"RO::read", "RW::read"}

ReadsOf(c) == {n \in CallIds : IsRead(calls[n]) /\ calls[n].actor = c}

\* C5: every read makes exactly one transaction, a load at the register's
\* address of the value the register holds at that moment, and that value is
\* what the read returns.
C5_ReadIsOneLoad ==
    /\ \A n \in CallIds :
          IsRead(calls[n]) =>
              \E i \in Idx :
                  /\ TxnsOf(n) = <<log[i]>>
                  /\ log[i] = Txn(calls[n].actor, n, "load", AddrOf(calls[n]),
                                  Held(i, AddrOf(calls[n])))
    /\ \A c \in Ctx :
          ReadsOf(c) # {} =>
              LET n == CHOOSE x \in ReadsOf(c) : \A y \in ReadsOf(c) : y <= x
              IN  \E i \in Idx : log[i].id = n /\ ret[c] = log[i].val

\* Two consecutive reads of one register with a hardware change between
\* them: two loads, the second returning the new value.
C5_Witness ==
    /\ Len(log) = 3 /\ Len(calls) = 2
    /\ IsRead(calls[1]) /\ IsRead(calls[2])
    /\ calls[1].actor = calls[2].actor
    /\ SameReg(calls[1], calls[2])
    /\ log[1].op = "load" /\ log[3].op = "load"
    /\ log[2].actor = "hw" /\ log[2].addr = log[1].addr
    /\ log[1].val = 0
    /\ log[3].val = log[2].val /\ log[3].val # 0
    /\ ret[calls[2].actor] = log[2].val

\* ------------------------------------------------------------------ C6
Regs == Bases \X Fields

KindOf(r) == block[r[2]].kind

\* The value last stored at a (0 at reset).
LastStored(a) == Held(Len(log) + 1, a)

KindAt(kind, a) ==
    \E r \in Regs : KindOf(r) = kind /\ RegAddr(r[1], block, r[2]) = a

Exposed(kind) ==
    CASE kind = "RO" -> {"RO::read"}
      [] kind = "RW" -> {"RW::read", "RW::write", "RW::modify"}
      [] kind = "WO" -> {"WO::write"}

\* C7: no transaction of a method call is a store at a read-only register or
\* a load at a write-only register; the methods called on a register are
\* those its kind has; and a read-only register holds what the hardware last
\* put there.
C7_AccessPolicy ==
    /\ \A i \in Idx :
          log[i].id # 0 =>
              /\ KindAt("RO", log[i].addr) => log[i].op = "load"
              /\ KindAt("WO", log[i].addr) => log[i].op = "store"
    /\ \A n \in CallIds : calls[n].call \in Exposed(block[calls[n].reg].kind)
    /\ \A r \in Regs :
          KindOf(r) = "RO" =>
              /\ mem[RegAddr(r[1], block, r[2])] = LastStored(RegAddr(r[1], block, r[2]))
              /\ \A i \in Idx :
                    IsStoreTo(i, RegAddr(r[1], block, r[2])) => log[i].actor = "hw"

\* A read-only register was read, a write-only register written and a
\* read-write register modified.
C7_Witness ==
    /\ \E n \in CallIds : calls[n].call = "RO::read"
    /\ \E n \in CallIds : calls[n].call = "WO::write"
    /\ \E n \in CallIds : calls[n].call = "RW::modify" /\ Len(TxnsOf(n)) = 2

\* ------------------------------------------------------------------ C8
Holders(base) == {c \in Ctx : Exclusive(c, base)}

\* Two contexts are between the load and the store of a modify of the
\* register at a, or another context stored to it between the load and the
\* store of a modify.
RaceOn(a) ==
    \/ \E c, d \in Ctx :
          /\ c # d
          /\ pc[c] = "modify" /\ cur[c].addr = a
          /\ pc[d] = "modify" /\ cur[d].addr = a
    \/ \E i, k \in Idx :
          /\ i < k
          /\ log[i].op = "load" /\ log[i].addr = a
          /\ log[i].id # 0 /\ calls[log[i].id].call = "RW::modify"
          /\ log[k].addr = a /\ log[k].op # "load"
          /\ log[k].actor \notin {"hw", log[i].actor}
          /\ \A j \in Idx : (log[j].id = log[i].id /\ log[j].op = "store") => k < j

\* C8 as stated: no write or modify of a read-write register ever overlaps
\* the load-store pair of a modify of the same register by another context.
C8_NeverRaces ==
    \A r \in Regs : KindOf(r) = "RW" => ~RaceOn(RegAddr(r[1], block, r[2]))

\* C8, amended: as long as at most one context holds an exclusive reference
\* to a block, no write or modify of a read-write register of the block
\* overlaps the load-store pair of a modify of the same register by another
\* context.
C8_NoRaceUnlessAliased ==
    \A r \in Regs :
        (KindOf(r) = "RW" /\ Cardinality(Holders(r[1])) <= 1)
        => ~RaceOn(RegAddr(r[1], block, r[2]))

\* The one holder of the exclusive reference is between the load and the
\* store of a modify while the other context, holding a shared reference to
\* the other block, made the latest access.
C8_Witness ==
    \E c, d \in Ctx :
        /\ c # d
        /\ Holders(GPIOC_ADDRESS) = {c}
        /\ pc[c] = "modify"
        /\ Shared(d, GPIOA_ADDRESS)
        /\ Len(log) >= 2
        /\ log[Len(log)].actor = d
        /\ log[Len(log) - 1].id = cur[c].id

\* ------------------------------------------------------------------ C9
PayloadOffset(k) == ReprCOffset(PayloadMembers(block), k)

\* C9: in a register block every wrapper has the size and the alignment of
\* its bare payload, every field sits at the offset it would have in the
\* block of the bare payloads, the two blocks have the same size, and every
\* transaction of a call on field k is at base + that offset.
C9_LayoutFidelity ==
    /\ \A k \in Fields :
          /\ Members(block)[k] = PayloadMembers(block)[k]
          /\ block[k].offset = PayloadOffset(k)
    /\ ReprCSize(Members(block)) = ReprCSize(PayloadMembers(block))
    /\ \A i \in Idx :
          log[i].id # 0 =>
              log[i].addr = calls[log[i].id].base + PayloadOffset(calls[log[i].id].reg)

\* A block with payloads of 4, 1 and 4 bytes: the fields sit at offsets 0, 4
\* and 8, and the second and third have been accessed at base + 4 and
\* base + 8.
C9_Witness ==
    /\ <<block[1].ty, block[2].ty, block[3].ty>> = <<"u32", "u8", "u32">>
    /\ <<block[1].offset, block[2].offset, block[3].offset>> = <<0, 4, 8>>
    /\ \E i, j \in Idx :
          /\ log[i].id # 0 /\ calls[log[i].id].reg = 2
          /\ log[i].addr = calls[log[i].id].base + 4
          /\ log[j].id # 0 /\ calls[log[j].id].reg = 3
          /\ log[j].addr = calls[log[j].id].base + 8

\* ----------------------------------------------------------------- C10
\* C10: a step in which a method call on a register makes a transaction
\* leaves the content of every other register unchanged and makes no
\* transaction at another register's address; a load changes no register at
\* all; and no register changes without a transaction.
C10_Frame ==
    [][/\ log' = log => mem' = mem
       /\ (log' # log /\ log'[Len(log')].id # 0)
          => /\ Len(log') = Len(log) + 1
             /\ log'[Len(log')].op = "load" => mem' = mem
             /\ \A r \in Regs :
                   r # <<calls'[log'[Len(log')].id].base, calls'[log'[Len(log')].id].reg>>
                   => /\ mem'[RegAddr(r[1], block, r[2])] = mem[RegAddr(r[1], block, r[2])]
                      /\ log'[Len(log')].addr # RegAddr(r[1], block, r[2])]_vars

\* cr and odr of one block were written with different non-zero values and
\* cr was then read back: each register holds what was written to it, and idr
\* still holds its reset value.
C10_Witness ==
    /\ Len(log) = 3 /\ Len(calls) = 3
    /\ calls[1].call = "RW::write" /\ calls[2].call = "WO::write"
    /\ calls[3].call = "RW::read"
    /\ calls[1].base = calls[2].base /\ calls[1].base = calls[3].base
    /\ calls[1].arg # calls[2].arg
    /\ calls[1].arg # 0 /\ calls[2].arg # 0
    /\ mem[AddrOf(calls[1])] = calls[1].arg
    /\ mem[AddrOf(calls[2])] = calls[2].arg
    /\ ret[calls[3].actor] = calls[1].arg
    /\ \A r \in Regs :
          (r[1] = calls[1].base /\ KindOf(r) = "RO") => mem[RegAddr(r[1], block, r[2])] = 0

=============================================================================
